---- MODULE Spec2Model ----
(***************************************************************************)
(* Model of fault_inject.c, an LD_PRELOAD fault-injection layer.  The      *)
(* state is the library's static data (configuration, one-shot flag,       *)
(* mutex, real-function pointers, targeted-fd table, statistics, log       *)
(* sink) plus, for every calling thread, its position inside the wrapper   *)
(* it is executing and that call's locals.  Every wrapper is cut into      *)
(* steps at its accesses to shared data and at its blocking calls, so      *)
(* that threads interleave as the code allows.                             *)
(***************************************************************************)
EXTENDS Integers, FiniteSets, Sequences, TLC

VARIABLES env, g, real, g_initialized, g_mutex, g_targeted_fds, g_stat,
          logf, parses, pc, call, exited

vars == <<env, g, real, g_initialized, g_mutex, g_targeted_fds, g_stat,
          logf, parses, pc, call, exited>>

(* ------------------------------------------------------------------ *)
(* Bounds of the model                                                 *)
(* ------------------------------------------------------------------ *)

\* number of threads of the concurrent specifications
NumThreads == 2
\* no new call starts once the four counters sum to this many injections
MaxInjections == 2
\* rand() returns one of 0..MaxSmallDraw, the two values around RAND_MAX/2,
\* or RAND_MAX
MaxSmallDraw == 4

Threads == 1..NumThreads
MainThread == 1

(* ------------------------------------------------------------------ *)
(* Platform constants (Linux values)                                   *)
(* ------------------------------------------------------------------ *)

MAX_TRACKED_FDS == 4096
RAND_MAX == 2147483647
EPIPE == 32
ECONNRESET == 104
ECONNREFUSED == 111
ETIMEDOUT == 110
ENETUNREACH == 101
EHOSTUNREACH == 113
ENOENT == 2
EACCES == 13
EIO == 5
ENOSPC == 28
EROFS == 30
AF_INET == 2
AF_INET6 == 10
O_CREAT == 64

\* getenv() of a variable that is not set
NULL == "(null)"

(* ------------------------------------------------------------------ *)
(* libc conversions, on the texts the model's environments use         *)
(* ------------------------------------------------------------------ *)

\* atoi(): leading decimal digits, 0 when there are none
atoi(s) ==
    CASE s = "80" -> 80
      [] s = "443" -> 443
      [] s = "5" -> 5
      [] s = "28" -> 28
      [] s = "-3" -> -3
      [] OTHER -> 0

\* atof(), in halves: the rate r is held as the integer 2*r
atof(s) ==
    CASE s = "0.5" -> 1
      [] s = "1" -> 2
      [] s = "1.0" -> 2
      [] s = "1.5" -> 3
      [] s = "-0.5" -> -1
      [] OTHER -> 0

\* ntohs()/htons() on a little-endian host: the two bytes swapped
ntohs(x) == (x % 256) * 256 + (x \div 256)

(* ------------------------------------------------------------------ *)
(* parse_errno                                                         *)
(* ------------------------------------------------------------------ *)

parse_errno(name) ==
    CASE name = NULL -> 0
      [] name = "EPIPE" -> EPIPE
      [] name = "ECONNRESET" -> ECONNRESET
      [] name = "ECONNREFUSED" -> ECONNREFUSED
      [] name = "ETIMEDOUT" -> ETIMEDOUT
      [] name = "ENETUNREACH" -> ENETUNREACH
      [] name = "EHOSTUNREACH" -> EHOSTUNREACH
      [] name = "ENOENT" -> ENOENT
      [] name = "EACCES" -> EACCES
      [] name = "EIO" -> EIO
      [] name = "ENOSPC" -> ENOSPC
      [] name = "EROFS" -> EROFS
      [] OTHER -> atoi(name)

(* ------------------------------------------------------------------ *)
(* The process environment (the FAULT_* variables)                     *)
(* ------------------------------------------------------------------ *)

\* the one log path fopen(path, "a") can open; any other path fails
WritablePath == "/tmp/fault.log"

\* <<connect, send, recv fail, recv short, open>> rate texts
RateProfiles ==
    { <<"0.5", "0.5", "0.5", "0.5", "0.5">>,
      <<NULL, NULL, NULL, NULL, NULL>>,
      <<"1.0", "1.0", "1.0", "1.0", "1.0">>,
      <<"1", "1.5", "0", "1.0", "1">>,
      <<"-0.5", "abc", NULL, "0.5", "0">> }

\* <<connect, send, recv, open>> errno texts
ErrnoProfiles ==
    { <<"ECONNREFUSED", "EIO", "ETIMEDOUT", "ENOSPC">>,
      <<NULL, NULL, NULL, NULL>>,
      <<"ENETUNREACH", "bogus", "EHOSTUNREACH", "28">> }

EnabledTexts == {"1", "true", NULL, "0", "yes"}
PortTexts == {"80", NULL}
LatencyTexts == {"5", NULL, "-3"}
LogTexts == {WritablePath, NULL, "/nonexistent/fault.log"}

MkEnv(en, r, er, port, lat, log) ==
    [ FAULT_INJECT_ENABLED |-> en,
      FAULT_CONNECT_FAIL_RATE |-> r[1], FAULT_CONNECT_ERRNO |-> er[1],
      FAULT_SEND_FAIL_RATE |-> r[2], FAULT_SEND_ERRNO |-> er[2],
      FAULT_RECV_FAIL_RATE |-> r[3], FAULT_RECV_SHORT_RATE |-> r[4],
      FAULT_RECV_ERRNO |-> er[3],
      FAULT_OPEN_FAIL_RATE |-> r[5], FAULT_OPEN_ERRNO |-> er[4],
      FAULT_LATENCY_MS |-> lat, FAULT_TARGET_PORT |-> port,
      FAULT_LOG_FILE |-> log ]

\* the environment with every fault switched on, and how many settings of
\* an environment differ from it
BaseRates == <<"0.5", "0.5", "0.5", "0.5", "0.5">>
BaseErrnos == <<"ECONNREFUSED", "EIO", "ETIMEDOUT", "ENOSPC">>
B2N(b) == IF b THEN 1 ELSE 0
Deviations(en, r, er, port, lat, log) ==
    B2N(en # "1") + B2N(r # BaseRates) + B2N(er # BaseErrnos)
    + B2N(port # "80") + B2N(lat # "5") + B2N(log # WritablePath)

\* environments of the single-threaded specification: every environment
\* that differs from the base one in at most MaxDeviations settings
MaxDeviations == 2
Environments ==
    { MkEnv(x[1], x[2], x[3], x[4], x[5], x[6]) :
        x \in { y \in EnabledTexts \X RateProfiles \X ErrnoProfiles
                       \X PortTexts \X LatencyTexts \X LogTexts :
                Deviations(y[1], y[2], y[3], y[4], y[5], y[6]) <= MaxDeviations } }

(* ------------------------------------------------------------------ *)
(* Static data of the library (lines 46-80)                            *)
(* ------------------------------------------------------------------ *)

\* the configuration statics with their initializers
g_defaults ==
    [ enabled |-> FALSE,
      connect_fail_rate |-> 0, connect_errno |-> ETIMEDOUT,
      send_fail_rate |-> 0, send_errno |-> EPIPE,
      recv_fail_rate |-> 0, recv_short_rate |-> 0, recv_errno |-> ECONNRESET,
      open_fail_rate |-> 0, open_errno |-> ENOENT,
      latency_ms |-> 0, target_port |-> 0,
      log_file |-> "NULL" ]

Ops == {"connect", "send", "recv", "write", "read", "open", "close"}

\* real_connect .. real_close: TRUE once the pointer is non-NULL
real_defaults == [o \in Ops |-> FALSE]

g_stat_defaults ==
    [ connect_injected |-> 0, send_injected |-> 0,
      recv_injected |-> 0, short_reads |-> 0 ]

StatSum == g_stat.connect_injected + g_stat.send_injected
           + g_stat.recv_injected + g_stat.short_reads

(* ------------------------------------------------------------------ *)
(* init_config, lines 126-186: the values the body stores               *)
(* ------------------------------------------------------------------ *)

fopen_append(path) == IF path = WritablePath THEN "open" ELSE "NULL"

ParsedConfig(e, old) ==
    [ enabled |-> e.FAULT_INJECT_ENABLED # NULL
                  /\ (e.FAULT_INJECT_ENABLED = "1" \/ e.FAULT_INJECT_ENABLED = "true"),
      connect_fail_rate |-> IF e.FAULT_CONNECT_FAIL_RATE # NULL
                            THEN atof(e.FAULT_CONNECT_FAIL_RATE)
                            ELSE old.connect_fail_rate,
      connect_errno |-> IF e.FAULT_CONNECT_ERRNO # NULL
                        THEN parse_errno(e.FAULT_CONNECT_ERRNO)
                        ELSE old.connect_errno,
      send_fail_rate |-> IF e.FAULT_SEND_FAIL_RATE # NULL
                         THEN atof(e.FAULT_SEND_FAIL_RATE)
                         ELSE old.send_fail_rate,
      send_errno |-> IF e.FAULT_SEND_ERRNO # NULL
                     THEN parse_errno(e.FAULT_SEND_ERRNO)
                     ELSE old.send_errno,
      recv_fail_rate |-> IF e.FAULT_RECV_FAIL_RATE # NULL
                         THEN atof(e.FAULT_RECV_FAIL_RATE)
                         ELSE old.recv_fail_rate,
      recv_short_rate |-> IF e.FAULT_RECV_SHORT_RATE # NULL
                          THEN atof(e.FAULT_RECV_SHORT_RATE)
                          ELSE old.recv_short_rate,
      recv_errno |-> IF e.FAULT_RECV_ERRNO # NULL
                     THEN parse_errno(e.FAULT_RECV_ERRNO)
                     ELSE old.recv_errno,
      open_fail_rate |-> IF e.FAULT_OPEN_FAIL_RATE # NULL
                         THEN atof(e.FAULT_OPEN_FAIL_RATE)
                         ELSE old.open_fail_rate,
      open_errno |-> IF e.FAULT_OPEN_ERRNO # NULL
                     THEN parse_errno(e.FAULT_OPEN_ERRNO)
                     ELSE old.open_errno,
      latency_ms |-> IF e.FAULT_LATENCY_MS # NULL
                     THEN atoi(e.FAULT_LATENCY_MS)
                     ELSE old.latency_ms,
      target_port |-> IF e.FAULT_TARGET_PORT # NULL
                      THEN atoi(e.FAULT_TARGET_PORT)
                      ELSE old.target_port,
      log_file |-> IF e.FAULT_LOG_FILE # NULL
                   THEN fopen_append(e.FAULT_LOG_FILE)
                   ELSE old.log_file ]

\* dlsym(RTLD_NEXT, name): the platform provides every intercepted function
dlsym_next(name) == TRUE

(* ------------------------------------------------------------------ *)
(* Per-thread state: the wrapper call a thread is executing            *)
(* ------------------------------------------------------------------ *)

NoAddr == [family |-> 0, port |-> 0]

\* a thread outside any wrapper
IdleCall ==
    [ op |-> "none", fd |-> -1, addr |-> NoAddr, len |-> 0, flags |-> 0,
      mode |-> 0,
      hoisted |-> FALSE,    \* entered before the configuration was stored
      stale |-> {},         \* groups of statics this call reads stale
      targeted |-> FALSE,   \* connect's local `targeted`
      path |-> "none",      \* "disabled", "bypass", "ungated" or "gated"
      slept |-> 0,          \* nanosleep() calls made
      draws |-> 0,          \* rand() calls made
      logged |-> 0,         \* lines written to the log sink
      reals |-> 0,          \* invocations of the real function
      rargs |-> <<>>,       \* arguments the real function received
      rret |-> 0,           \* what the real function returned
      tmp |-> 0,            \* counter value loaded by a ++
      initline |-> 0,       \* fprintf calls of the [INIT] block made so far
      injected |-> "none",  \* "fail" or "short" once an injection triggered
      errno_set |-> 0,      \* value the wrapper assigned to errno (0: none)
      ret |-> 0 ]           \* the wrapper's return value

\* the statics as this call reads them: a call that took the lock-free
\* path of init_config (line 119) has no ordering with the initializing
\* thread's stores and may read the initializers instead
cfg(t) == IF "cfg" \in call[t].stale THEN g_defaults ELSE g
realp(t, o) == IF "real" \in call[t].stale THEN FALSE ELSE real[o]

Set(t, fields) == call' = [call EXCEPT ![t] = fields @@ call[t]]
Goto(t, label) == pc' = [pc EXCEPT ![t] = label]

(* ------------------------------------------------------------------ *)
(* Helpers of the library                                              *)
(* ------------------------------------------------------------------ *)

\* `((double)rand() / RAND_MAX) < rate` (210) for a rate held in halves
\* and a draw r in 0..RAND_MAX
bernoulli(rate, r) ==
    CASE rate <= 0 -> FALSE
      [] rate = 1 -> r < RAND_MAX - r
      [] rate = 2 -> r < RAND_MAX
      [] OTHER -> TRUE

\* should_inject with `>` for `>=` at line 209
should_inject_gt(rate, r) ==
    IF rate <= 0 THEN FALSE
    ELSE IF rate > 2 THEN TRUE
    ELSE bernoulli(rate, r)

\* should_inject without the two early returns of lines 208-209
should_inject_unclamped(rate, r) == bernoulli(rate, r)

\* should_inject (207-211): r is what rand() returns if it is called
should_inject(rate, r) ==
    IF rate <= 0 THEN FALSE
    ELSE IF rate >= 2 THEN TRUE
    ELSE bernoulli(rate, r)

\* rand() calls should_inject(rate) makes (208-210)
should_inject_draws(rate) == IF rate > 0 /\ rate < 2 THEN 1 ELSE 0

\* values rand() is modelled to return
RandValues == (0..MaxSmallDraw) \cup {RAND_MAX \div 2, RAND_MAX \div 2 + 1, RAND_MAX}

\* the draws that matter to should_inject(rate): all of them when its
\* result depends on the draw, one otherwise
DrawsFor(rate) ==
    IF \E r \in RandValues : should_inject(rate, r) # should_inject(rate, 0)
    THEN RandValues ELSE {0}

\* fprintf() on the log sink: the line is written; on a stream that
\* print_stats has already closed (488) the call is undefined: the line is
\* written, the line is lost, or the process is killed inside fprintf
\* (SIGSEGV, or abort in free())
fprintf_sink(sink) ==
    IF sink = "closed" THEN {"written", "lost", "killed"} ELSE {"written"}

\* lines an outcome of fprintf adds to the log
Lines(out) == IF out = "written" THEN 1 ELSE 0

\* log_inject (214-220): what it can do, given the sink as the caller
\* reads it: nothing when there is no sink, else one fprintf
log_inject(sink) == IF sink = "NULL" THEN {"none"} ELSE fprintf_sink(sink)

\* the process has been killed: no thread runs any more
Killed == [t \in Threads |-> "killed"]

\* add_latency (223-231): nanosleep() calls made
add_latency(ms) == IF ms > 0 THEN 1 ELSE 0

\* is_targeted_fd (234-237)
is_targeted_fd(tab, fd) ==
    IF fd < 0 \/ fd >= MAX_TRACKED_FDS THEN FALSE ELSE fd \in tab

\* mark_targeted_fd that skips the standard streams, as write and read do
mark_targeted_fd_above_std(tab, fd) ==
    IF fd > 2 /\ fd < MAX_TRACKED_FDS THEN tab \cup {fd} ELSE tab

\* mark_targeted_fd without the upper bound of its range test
mark_targeted_fd_no_upper_bound(tab, fd) ==
    IF fd >= 0 THEN tab \cup {fd} ELSE tab

\* mark_targeted_fd (240-244)
mark_targeted_fd(tab, fd) ==
    IF fd >= 0 /\ fd < MAX_TRACKED_FDS THEN tab \cup {fd} ELSE tab

\* unmark_targeted_fd (247-251)
unmark_targeted_fd(tab, fd) ==
    IF fd >= 0 /\ fd < MAX_TRACKED_FDS THEN tab \ {fd} ELSE tab

\* the gate of write and read without its `fd > 2` half
socket_gate_any_registered(tab, fd) == is_targeted_fd(tab, fd)

\* `fd > 2 && is_targeted_fd(fd)` (386, 409, 426)
socket_gate(tab, fd) == fd > 2 /\ is_targeted_fd(tab, fd)

\* the bypass test of send and recv with the port test inverted
target_bypass_inverted(tab, fd, port) == ~is_targeted_fd(tab, fd) /\ port = 0

\* `!is_targeted_fd(sockfd) && g_target_port != 0` (317, 345)
target_bypass(tab, fd, port) == ~is_targeted_fd(tab, fd) /\ port # 0

\* matches_target comparing sin_port without ntohs()
matches_target_raw(port, addr) ==
    IF port = 0 THEN TRUE
    ELSE IF addr.family = AF_INET THEN addr.port = port
    ELSE IF addr.family = AF_INET6 THEN addr.port = port
    ELSE FALSE

\* matches_target (254-265); addr.port is sin_port, in network byte order
matches_target(port, addr) ==
    IF port = 0 THEN TRUE
    ELSE IF addr.family = AF_INET THEN ntohs(addr.port) = port
    ELSE IF addr.family = AF_INET6 THEN ntohs(addr.port) = port
    ELSE FALSE

\* the short length drawn over the whole of the real length
short_len_whole(n, r) == 1 + (r % n)

\* the short length with the modulus one half-step larger
short_len_rounded_up(n, r) == 1 + (r % ((n + 2) \div 2))

\* short_len = 1 + (rand() % ((ret + 1) / 2))  (365, 427)
short_len(n, r) == 1 + (r % ((n + 1) \div 2))

(* ------------------------------------------------------------------ *)
(* Initial state                                                       *)
(* ------------------------------------------------------------------ *)

InitWith(envs) ==
    /\ env \in envs
    /\ g = g_defaults
    /\ real = real_defaults
    /\ g_initialized = 0
    /\ g_mutex = 0
    /\ g_targeted_fds = {}
    /\ g_stat = g_stat_defaults
    /\ logf = [init |-> 0, init_lines |-> 0, stats |-> 0, sink_at_exit |-> "none"]
    /\ parses = 0
    /\ pc = [t \in Threads |-> "idle"]
    /\ call = [t \in Threads |-> IdleCall]
    /\ exited = FALSE

shared == <<env, g, real, g_initialized, g_mutex, g_targeted_fds, g_stat,
            logf, parses, exited>>

(* ------------------------------------------------------------------ *)
(* init_config (118-204)                                               *)
(* ------------------------------------------------------------------ *)

\* the initializing thread is past line 188 and has not yet unlocked
Publishing == \E u \in Threads : pc[u] \in {"init_log", "init_unlock"}

\* line 119: the unsynchronized read of g_initialized.  Reading 1 returns
\* at once; the reads of the statics that follow are then unordered with
\* the initializer's stores when this call began before they were made or
\* the initializer is still inside its critical section.
init_check(t) ==
    /\ pc[t] = "init_check"
    /\ IF g_initialized = 1
       THEN /\ \E st \in (IF call[t].hoisted \/ Publishing
                          THEN SUBSET {"cfg", "real"} ELSE {{}}) :
                    Set(t, [stale |-> st])
            /\ Goto(t, "body")
       ELSE /\ Goto(t, "init_lock")
            /\ UNCHANGED call
    /\ UNCHANGED shared

\* line 120
init_lock(t) ==
    /\ pc[t] = "init_lock"
    /\ g_mutex = 0
    /\ g_mutex' = t
    /\ Goto(t, "init_check2")
    /\ UNCHANGED <<env, g, real, g_initialized, g_targeted_fds, g_stat,
                   logf, parses, exited, call>>

\* init_config without the second test of g_initialized under the mutex
init_check2_unchecked(t) ==
    /\ pc[t] = "init_check2"
    /\ Goto(t, "init_body")
    /\ UNCHANGED <<shared, call>>

\* lines 121-124
init_check2(t) ==
    /\ pc[t] = "init_check2"
    /\ IF g_initialized = 1
       THEN g_mutex' = 0 /\ Goto(t, "body")
       ELSE g_mutex' = g_mutex /\ Goto(t, "init_body")
    /\ UNCHANGED <<env, g, real, g_initialized, g_targeted_fds, g_stat,
                   logf, parses, exited, call>>

\* lines 126-186: getenv and parse, fopen, srand, dlsym, memset
init_body(t) ==
    /\ pc[t] = "init_body"
    /\ g' = ParsedConfig(env, g)
    /\ real' = [o \in Ops |-> dlsym_next(o)]
    /\ g_targeted_fds' = {}
    /\ parses' = parses + 1
    /\ Goto(t, "init_publish")
    /\ UNCHANGED <<env, g_initialized, g_mutex, g_stat, logf, exited, call>>

\* line 188
init_publish(t) ==
    /\ pc[t] = "init_publish"
    /\ g_initialized' = 1
    /\ Goto(t, "init_log")
    /\ UNCHANGED <<env, g, real, g_mutex, g_targeted_fds, g_stat, logf,
                   parses, exited, call>>

\* fprintf calls of the [INIT] block: lines 191, 192, 194, 196 and, with a
\* target port, 199
InitLines(port) == IF port # 0 THEN 5 ELSE 4

\* lines 190-201: the [INIT] block, one fprintf at a step; logf.init counts
\* the blocks whose first line was written, logf.init_lines the lines
init_log(t) ==
    /\ pc[t] = "init_log"
    /\ IF g.log_file # "NULL" /\ g.enabled
       THEN \E out \in fprintf_sink(g.log_file) :
              IF out = "killed"
              THEN pc' = Killed /\ UNCHANGED <<call, logf>>
              ELSE /\ logf' = [logf EXCEPT
                                 !.init = IF call[t].initline = 0
                                          THEN @ + Lines(out) ELSE @,
                                 !.init_lines = @ + Lines(out)]
                   /\ Set(t, [initline |-> call[t].initline + 1])
                   /\ IF call[t].initline + 1 = InitLines(g.target_port)
                      THEN Goto(t, "init_unlock")
                      ELSE pc' = pc
       ELSE Goto(t, "init_unlock") /\ UNCHANGED <<call, logf>>
    /\ UNCHANGED <<env, g, real, g_initialized, g_mutex, g_targeted_fds,
                   g_stat, parses, exited>>

\* line 203
init_unlock(t) ==
    /\ pc[t] = "init_unlock"
    /\ g_mutex' = 0
    /\ Goto(t, "body")
    /\ UNCHANGED <<env, g, real, g_initialized, g_targeted_fds, g_stat,
                   logf, parses, exited, call>>

init_config(t) ==
    \/ init_check(t) \/ init_lock(t) \/ init_check2(t) \/ init_body(t)
    \/ init_publish(t) \/ init_log(t) \/ init_unlock(t)

\* a thread enters a wrapper, whose first statement is init_config()
Enter(t, fields) ==
    /\ pc[t] = "idle"
    /\ StatSum < MaxInjections
    /\ call' = [call EXCEPT ![t] =
                  fields @@ [hoisted |-> (real = real_defaults)] @@ IdleCall]
    /\ Goto(t, "init_check")
    /\ UNCHANGED shared

\* the wrapper returns to its caller
Return(t) ==
    /\ pc[t] = "done"
    /\ call' = [call EXCEPT ![t] = IdleCall]
    /\ Goto(t, "idle")
    /\ UNCHANGED shared

(* ------------------------------------------------------------------ *)
(* close (469-478)                                                     *)
(* ------------------------------------------------------------------ *)

RealStatus == {0, -1}

close_call(t, fds) == \E fd \in fds : Enter(t, [op |-> "close", fd |-> fd])

\* lines 472-474, 477
close_unmark(t) ==
    /\ pc[t] = "body" /\ call[t].op = "close"
    /\ g_targeted_fds' = unmark_targeted_fd(g_targeted_fds, call[t].fd)
    /\ IF realp(t, "close")
       THEN Goto(t, "real") /\ UNCHANGED call
       ELSE Goto(t, "done") /\ Set(t, [ret |-> -1])
    /\ UNCHANGED <<env, g, real, g_initialized, g_mutex, g_stat, logf,
                   parses, exited>>

\* line 475
close_real(t) ==
    /\ pc[t] = "real" /\ call[t].op = "close"
    /\ \E r \in RealStatus :
         Set(t, [reals |-> call[t].reals + 1, rargs |-> <<call[t].fd>>,
                 rret |-> r, ret |-> r])
    /\ Goto(t, "done")
    /\ UNCHANGED shared

(* ------------------------------------------------------------------ *)
(* Inputs of the wrappers                                              *)
(* ------------------------------------------------------------------ *)

\* descriptors: negative, a standard stream, a socket, one past the table
Fds == {-1, 2, 3, MAX_TRACKED_FDS}

\* addresses; port is the sin_port field, in network byte order
Addrs ==
    { [family |-> AF_INET, port |-> ntohs(80)],
      [family |-> AF_INET, port |-> ntohs(443)],
      [family |-> AF_INET, port |-> 80],
      [family |-> AF_INET6, port |-> ntohs(80)],
      [family |-> AF_INET6, port |-> ntohs(443)],
      [family |-> 1, port |-> 0] }   \* AF_UNIX: neither IPv4 nor IPv6

\* the buffer length of a send, recv, read or write
Lens == {10}

\* what the real recv()/read() can return for a buffer of n bytes
ReadResults(n) == {-1, 0, 1, 2, 3, n}
\* what the real send()/write() can return
WriteResults(n) == {-1, n}
\* what the real open() can return
OpenResults == {-1, 5}

\* without and with O_CREAT
OpenFlags == {0, O_CREAT}

unchanged_but_fds == UNCHANGED <<env, g, real, g_initialized, g_mutex, g_stat,
                                 logf, parses, exited>>
unchanged_but_stat == UNCHANGED <<env, g, real, g_initialized, g_mutex,
                                  g_targeted_fds, logf, parses, exited>>

\* the passthrough test without its g_enabled half
Disabled_ignores_enabled(t, o) == ~realp(t, o)

\* `if (!g_enabled || !real_x) return real_x ? real_x(...) : -1;`
Disabled(t, o) == ~cfg(t).enabled \/ ~realp(t, o)
Passthrough(t, o) ==
    IF realp(t, o)
    THEN Goto(t, "real") /\ Set(t, [path |-> "disabled"])
    ELSE Goto(t, "done") /\ Set(t, [path |-> "disabled", ret |-> -1])

\* the real function invoked a second time for the value returned
RealCall_twice(t, args, r) ==
    [reals |-> call[t].reals + 2, rargs |-> args, rret |-> r, ret |-> r]

\* the real function runs once on the caller's arguments
RealCall(t, args, r) ==
    [reals |-> call[t].reals + 1, rargs |-> args, rret |-> r, ret |-> r]

\* the log_inject() call of an injection block: one fprintf on the sink as
\* it is at that moment
log_step(t, from, to) ==
    /\ pc[t] = from
    /\ \E out \in log_inject(cfg(t).log_file) :
         IF out = "killed"
         THEN pc' = Killed /\ UNCHANGED call
         ELSE Set(t, [logged |-> call[t].logged + Lines(out)]) /\ Goto(t, to)
    /\ UNCHANGED shared

\* the load of `g_stat_x++`; the store is the step that follows
load_step(t, from, to, counter) ==
    /\ pc[t] = from
    /\ Set(t, [tmp |-> g_stat[counter]])
    /\ Goto(t, to)
    /\ UNCHANGED shared

(* ------------------------------------------------------------------ *)
(* connect (268-307)                                                   *)
(* ------------------------------------------------------------------ *)

connect_call(t, fds, addrs) ==
    \E fd \in fds, a \in addrs : Enter(t, [op |-> "connect", fd |-> fd, addr |-> a])

\* connect registering the descriptor whether or not the address matched
connect_gate_marks_always(t) ==
    /\ pc[t] = "body" /\ call[t].op = "connect"
    /\ IF Disabled(t, "connect")
       THEN Passthrough(t, "connect") /\ UNCHANGED g_targeted_fds
       ELSE LET targeted == matches_target(cfg(t).target_port, call[t].addr) IN
            /\ g_targeted_fds' = mark_targeted_fd(g_targeted_fds, call[t].fd)
            /\ Set(t, [targeted |-> targeted, path |-> "gated"])
            /\ Goto(t, "latency")
    /\ unchanged_but_fds

\* lines 271-278
connect_gate(t) ==
    /\ pc[t] = "body" /\ call[t].op = "connect"
    /\ IF Disabled(t, "connect")
       THEN Passthrough(t, "connect") /\ UNCHANGED g_targeted_fds
       ELSE LET targeted == matches_target(cfg(t).target_port, call[t].addr) IN
            /\ g_targeted_fds' = IF targeted
                                 THEN mark_targeted_fd(g_targeted_fds, call[t].fd)
                                 ELSE g_targeted_fds
            /\ Set(t, [targeted |-> targeted, path |-> "gated"])
            /\ Goto(t, "latency")
    /\ unchanged_but_fds

\* connect sleeping only when the address matched the filter
connect_latency_targeted_only(t) ==
    /\ pc[t] = "latency" /\ call[t].op = "connect"
    /\ Set(t, [slept |-> call[t].slept
                         + (IF call[t].targeted THEN add_latency(cfg(t).latency_ms) ELSE 0)])
    /\ Goto(t, "decide")
    /\ UNCHANGED shared

\* line 280
connect_latency(t) ==
    /\ pc[t] = "latency" /\ call[t].op = "connect"
    /\ Set(t, [slept |-> call[t].slept + add_latency(cfg(t).latency_ms)])
    /\ Goto(t, "decide")
    /\ UNCHANGED shared

\* lines 282-283: the decision
connect_decide(t) ==
    /\ pc[t] = "decide" /\ call[t].op = "connect"
    /\ IF call[t].targeted
       THEN \E r \in DrawsFor(cfg(t).connect_fail_rate) :
              LET d == call[t].draws + should_inject_draws(cfg(t).connect_fail_rate) IN
              IF should_inject(cfg(t).connect_fail_rate, r)
              THEN Set(t, [draws |-> d]) /\ Goto(t, "log")
              ELSE Set(t, [draws |-> d]) /\ Goto(t, "real")
       ELSE UNCHANGED call /\ Goto(t, "real")
    /\ UNCHANGED shared

\* line 284-300: the log line
connect_log(t) ==
    /\ call[t].op = "connect"
    /\ log_step(t, "log", "load")

\* line 301: the load of the counter
connect_load(t) ==
    /\ call[t].op = "connect"
    /\ load_step(t, "load", "count", "connect_injected")

\* lines 301-303: the store of the counter, errno, return -1
connect_count(t) ==
    /\ pc[t] = "count" /\ call[t].op = "connect"
    /\ g_stat' = [g_stat EXCEPT !.connect_injected = call[t].tmp + 1]
    /\ Set(t, [injected |-> "fail", errno_set |-> cfg(t).connect_errno, ret |-> -1])
    /\ Goto(t, "done")
    /\ unchanged_but_stat

\* lines 272, 306
connect_real(t) ==
    /\ pc[t] = "real" /\ call[t].op = "connect"
    /\ \E r \in RealStatus :
         Set(t, RealCall(t, <<call[t].fd, call[t].addr>>, r))
    /\ Goto(t, "done")
    /\ UNCHANGED shared

(* ------------------------------------------------------------------ *)
(* send (310-335)                                                      *)
(* ------------------------------------------------------------------ *)

send_call(t, fds) ==
    \E fd \in fds, n \in Lens : Enter(t, [op |-> "send", fd |-> fd, len |-> n])

\* lines 313-319
send_gate(t) ==
    /\ pc[t] = "body" /\ call[t].op = "send"
    /\ IF Disabled(t, "send")
       THEN Passthrough(t, "send")
       ELSE IF target_bypass(g_targeted_fds, call[t].fd, cfg(t).target_port)
       THEN Set(t, [path |-> "bypass"]) /\ Goto(t, "real")
       ELSE Set(t, [path |-> "gated"]) /\ Goto(t, "latency")
    /\ UNCHANGED shared

\* line 321
send_latency(t) ==
    /\ pc[t] = "latency" /\ call[t].op = "send"
    /\ Set(t, [slept |-> call[t].slept + add_latency(cfg(t).latency_ms)])
    /\ Goto(t, "decide")
    /\ UNCHANGED shared

\* line 323
send_decide(t) ==
    /\ pc[t] = "decide" /\ call[t].op = "send"
    /\ \E r \in DrawsFor(cfg(t).send_fail_rate) :
         LET d == call[t].draws + should_inject_draws(cfg(t).send_fail_rate) IN
         IF should_inject(cfg(t).send_fail_rate, r)
         THEN Set(t, [draws |-> d]) /\ Goto(t, "log")
         ELSE Set(t, [draws |-> d]) /\ Goto(t, "real")
    /\ UNCHANGED shared

\* line 324-328: the log line
send_log(t) ==
    /\ call[t].op = "send"
    /\ log_step(t, "log", "load")

\* line 329: the load of the counter
send_load(t) ==
    /\ call[t].op = "send"
    /\ load_step(t, "load", "count", "send_injected")

\* lines 329-331
send_count(t) ==
    /\ pc[t] = "count" /\ call[t].op = "send"
    /\ g_stat' = [g_stat EXCEPT !.send_injected = call[t].tmp + 1]
    /\ Set(t, [injected |-> "fail", errno_set |-> cfg(t).send_errno, ret |-> -1])
    /\ Goto(t, "done")
    /\ unchanged_but_stat

\* lines 314, 318, 334
send_real(t) ==
    /\ pc[t] = "real" /\ call[t].op = "send"
    /\ \E r \in WriteResults(call[t].len) :
         Set(t, RealCall(t, <<call[t].fd, call[t].len>>, r))
    /\ Goto(t, "done")
    /\ UNCHANGED shared

(* ------------------------------------------------------------------ *)
(* recv (338-375)                                                      *)
(* ------------------------------------------------------------------ *)

recv_call(t, fds) ==
    \E fd \in fds, n \in Lens : Enter(t, [op |-> "recv", fd |-> fd, len |-> n])

\* lines 341-347
recv_gate(t) ==
    /\ pc[t] = "body" /\ call[t].op = "recv"
    /\ IF Disabled(t, "recv")
       THEN Passthrough(t, "recv")
       ELSE IF target_bypass(g_targeted_fds, call[t].fd, cfg(t).target_port)
       THEN Set(t, [path |-> "bypass"]) /\ Goto(t, "real")
       ELSE Set(t, [path |-> "gated"]) /\ Goto(t, "latency")
    /\ UNCHANGED shared

\* line 349
recv_latency(t) ==
    /\ pc[t] = "latency" /\ call[t].op = "recv"
    /\ Set(t, [slept |-> call[t].slept + add_latency(cfg(t).latency_ms)])
    /\ Goto(t, "decide")
    /\ UNCHANGED shared

\* line 351
recv_decide(t) ==
    /\ pc[t] = "decide" /\ call[t].op = "recv"
    /\ \E r \in DrawsFor(cfg(t).recv_fail_rate) :
         LET d == call[t].draws + should_inject_draws(cfg(t).recv_fail_rate) IN
         IF should_inject(cfg(t).recv_fail_rate, r)
         THEN Set(t, [draws |-> d]) /\ Goto(t, "log")
         ELSE Set(t, [draws |-> d]) /\ Goto(t, "real")
    /\ UNCHANGED shared

\* line 352-355: the log line
recv_log(t) ==
    /\ call[t].op = "recv"
    /\ log_step(t, "log", "load")

\* line 356: the load of the counter
recv_load(t) ==
    /\ call[t].op = "recv"
    /\ load_step(t, "load", "count", "recv_injected")

\* lines 356-358
recv_count(t) ==
    /\ pc[t] = "count" /\ call[t].op = "recv"
    /\ g_stat' = [g_stat EXCEPT !.recv_injected = call[t].tmp + 1]
    /\ Set(t, [injected |-> "fail", errno_set |-> cfg(t).recv_errno, ret |-> -1])
    /\ Goto(t, "done")
    /\ unchanged_but_stat

\* whether the short-read stage triggers (364, 426)
ShortTriggers(t, n, eligible, r1) ==
    eligible /\ n > 1 /\ should_inject(cfg(t).recv_short_rate, r1)

\* the draws that size a short read: rand() is called only if it triggers
SizeDraws(t, n, eligible, r1) ==
    IF ShortTriggers(t, n, eligible, r1) THEN RandValues ELSE {0}

\* the short-read decision after the real call returned n (364-365,
\* 426-427): r1 is the draw of should_inject, r2 the draw that sizes the read
ShortStage(t, args, n, eligible, r1, r2) ==
    LET rate == cfg(t).recv_short_rate
        base == RealCall(t, args, n) IN
    IF eligible /\ n > 1
    THEN IF ShortTriggers(t, n, eligible, r1)
         THEN /\ Set(t, [ret |-> short_len(n, r2),
                         draws |-> call[t].draws + should_inject_draws(rate) + 1]
                        @@ base)
              /\ Goto(t, "short_log")
         ELSE /\ Set(t, [draws |-> call[t].draws + should_inject_draws(rate)] @@ base)
              /\ Goto(t, "done")
    ELSE Set(t, base) /\ Goto(t, "done")

\* lines 342, 346 (returned as is) and 361-365
recv_real(t) ==
    /\ pc[t] = "real" /\ call[t].op = "recv"
    /\ \E n \in ReadResults(call[t].len), r1 \in DrawsFor(cfg(t).recv_short_rate) :
         \E r2 \in SizeDraws(t, n, call[t].path = "gated", r1) :
            ShortStage(t, <<call[t].fd, call[t].len>>, n,
                       call[t].path = "gated", r1, r2)
    /\ UNCHANGED shared

\* lines 366-369: the log line of a short read
recv_short_log(t) ==
    /\ call[t].op = "recv"
    /\ log_step(t, "short_log", "short_load")

\* line 370: the load of the counter
recv_short_load(t) ==
    /\ call[t].op = "recv"
    /\ load_step(t, "short_load", "short_count", "short_reads")

\* lines 370-371
recv_short_count(t) ==
    /\ pc[t] = "short_count" /\ call[t].op = "recv"
    /\ g_stat' = [g_stat EXCEPT !.short_reads = call[t].tmp + 1]
    /\ Set(t, [injected |-> "short"])
    /\ Goto(t, "done")
    /\ unchanged_but_stat

(* ------------------------------------------------------------------ *)
(* write (378-398)                                                     *)
(* ------------------------------------------------------------------ *)

write_call(t, fds) ==
    \E fd \in fds, n \in Lens : Enter(t, [op |-> "write", fd |-> fd, len |-> n])

\* lines 381-386: the gate and the decision
write_gate(t) ==
    /\ pc[t] = "body" /\ call[t].op = "write"
    /\ IF Disabled(t, "write")
       THEN Passthrough(t, "write")
       ELSE IF socket_gate(g_targeted_fds, call[t].fd)
       THEN \E r \in DrawsFor(cfg(t).send_fail_rate) :
              LET d == call[t].draws + should_inject_draws(cfg(t).send_fail_rate) IN
              IF should_inject(cfg(t).send_fail_rate, r)
              THEN Set(t, [path |-> "gated", draws |-> d]) /\ Goto(t, "log")
              ELSE Set(t, [path |-> "gated", draws |-> d]) /\ Goto(t, "real")
       ELSE Set(t, [path |-> "ungated"]) /\ Goto(t, "real")
    /\ UNCHANGED shared

\* line 387-391: the log line
write_log(t) ==
    /\ call[t].op = "write"
    /\ log_step(t, "log", "load")

\* line 392: the load of the counter
write_load(t) ==
    /\ call[t].op = "write"
    /\ load_step(t, "load", "count", "send_injected")

\* write's injected failure reporting the recv code instead of the send code
write_count_recv_errno(t) ==
    /\ pc[t] = "count" /\ call[t].op = "write"
    /\ g_stat' = [g_stat EXCEPT !.send_injected = call[t].tmp + 1]
    /\ Set(t, [injected |-> "fail", errno_set |-> cfg(t).recv_errno, ret |-> -1])
    /\ Goto(t, "done")
    /\ unchanged_but_stat

\* lines 392-394
write_count(t) ==
    /\ pc[t] = "count" /\ call[t].op = "write"
    /\ g_stat' = [g_stat EXCEPT !.send_injected = call[t].tmp + 1]
    /\ Set(t, [injected |-> "fail", errno_set |-> cfg(t).send_errno, ret |-> -1])
    /\ Goto(t, "done")
    /\ unchanged_but_stat

\* lines 382, 397
write_real(t) ==
    /\ pc[t] = "real" /\ call[t].op = "write"
    /\ \E r \in WriteResults(call[t].len) :
         Set(t, RealCall(t, <<call[t].fd, call[t].len>>, r))
    /\ Goto(t, "done")
    /\ UNCHANGED shared

(* ------------------------------------------------------------------ *)
(* read (401-437)                                                      *)
(* ------------------------------------------------------------------ *)

read_call(t, fds) ==
    \E fd \in fds, n \in Lens : Enter(t, [op |-> "read", fd |-> fd, len |-> n])

\* lines 404-409
read_gate(t) ==
    /\ pc[t] = "body" /\ call[t].op = "read"
    /\ IF Disabled(t, "read")
       THEN Passthrough(t, "read")
       ELSE IF socket_gate(g_targeted_fds, call[t].fd)
       THEN Set(t, [path |-> "gated"]) /\ Goto(t, "latency")
       ELSE Set(t, [path |-> "ungated"]) /\ Goto(t, "real")
    /\ UNCHANGED shared

\* line 410
read_latency(t) ==
    /\ pc[t] = "latency" /\ call[t].op = "read"
    /\ Set(t, [slept |-> call[t].slept + add_latency(cfg(t).latency_ms)])
    /\ Goto(t, "decide")
    /\ UNCHANGED shared

\* line 412
read_decide(t) ==
    /\ pc[t] = "decide" /\ call[t].op = "read"
    /\ \E r \in DrawsFor(cfg(t).recv_fail_rate) :
         LET d == call[t].draws + should_inject_draws(cfg(t).recv_fail_rate) IN
         IF should_inject(cfg(t).recv_fail_rate, r)
         THEN Set(t, [draws |-> d]) /\ Goto(t, "log")
         ELSE Set(t, [draws |-> d]) /\ Goto(t, "real")
    /\ UNCHANGED shared

\* line 413-416: the log line
read_log(t) ==
    /\ call[t].op = "read"
    /\ log_step(t, "log", "load")

\* line 417: the load of the counter
read_load(t) ==
    /\ call[t].op = "read"
    /\ load_step(t, "load", "count", "recv_injected")

\* lines 417-419
read_count(t) ==
    /\ pc[t] = "count" /\ call[t].op = "read"
    /\ g_stat' = [g_stat EXCEPT !.recv_injected = call[t].tmp + 1]
    /\ Set(t, [injected |-> "fail", errno_set |-> cfg(t).recv_errno, ret |-> -1])
    /\ Goto(t, "done")
    /\ unchanged_but_stat

\* lines 405 (returned as is) and 423-427: the table is read again at 426
read_real(t) ==
    /\ pc[t] = "real" /\ call[t].op = "read"
    /\ LET eligible == /\ call[t].path # "disabled"
                       /\ socket_gate(g_targeted_fds, call[t].fd) IN
       \E n \in ReadResults(call[t].len), r1 \in DrawsFor(cfg(t).recv_short_rate) :
         \E r2 \in SizeDraws(t, n, eligible, r1) :
            ShortStage(t, <<call[t].fd, call[t].len>>, n, eligible, r1, r2)
    /\ UNCHANGED shared

\* lines 428-431: the log line of a short read
read_short_log(t) ==
    /\ call[t].op = "read"
    /\ log_step(t, "short_log", "short_load")

\* line 432: the load of the counter
read_short_load(t) ==
    /\ call[t].op = "read"
    /\ load_step(t, "short_load", "short_count", "short_reads")

\* lines 432-433
read_short_count(t) ==
    /\ pc[t] = "short_count" /\ call[t].op = "read"
    /\ g_stat' = [g_stat EXCEPT !.short_reads = call[t].tmp + 1]
    /\ Set(t, [injected |-> "short"])
    /\ Goto(t, "done")
    /\ unchanged_but_stat

(* ------------------------------------------------------------------ *)
(* open (440-466)                                                      *)
(* ------------------------------------------------------------------ *)

\* `flags & O_CREAT`
has_O_CREAT(flags) == (flags \div O_CREAT) % 2 = 1

\* lines 443-449: the variadic mode is read only with O_CREAT
open_mode(flags, given) == IF has_O_CREAT(flags) THEN given ELSE 0

open_call(t) ==
    \E f \in OpenFlags :
        Enter(t, [op |-> "open", fd |-> -1, flags |-> f,
                  mode |-> IF has_O_CREAT(f) THEN 420 ELSE 0])   \* 0644

\* lines 443-455
open_gate(t) ==
    /\ pc[t] = "body" /\ call[t].op = "open"
    /\ IF Disabled(t, "open")
       THEN Passthrough(t, "open")
       ELSE \E r \in DrawsFor(cfg(t).open_fail_rate) :
              LET d == call[t].draws + should_inject_draws(cfg(t).open_fail_rate) IN
              IF should_inject(cfg(t).open_fail_rate, r)
              THEN Set(t, [path |-> "gated", draws |-> d]) /\ Goto(t, "log")
              ELSE Set(t, [path |-> "gated", draws |-> d]) /\ Goto(t, "real")
    /\ UNCHANGED shared

\* lines 456-462: the log line, errno, return -1; open keeps no counter
open_log(t) ==
    /\ pc[t] = "log" /\ call[t].op = "open"
    /\ \E out \in log_inject(cfg(t).log_file) :
         IF out = "killed"
         THEN pc' = Killed /\ UNCHANGED call
         ELSE /\ Set(t, [logged |-> call[t].logged + Lines(out),
                         injected |-> "fail",
                         errno_set |-> cfg(t).open_errno, ret |-> -1])
              /\ Goto(t, "done")
    /\ UNCHANGED shared

\* lines 452, 465
open_real(t) ==
    /\ pc[t] = "real" /\ call[t].op = "open"
    /\ \E r \in OpenResults :
         Set(t, RealCall(t, <<call[t].flags,
                              open_mode(call[t].flags, call[t].mode)>>, r))
    /\ Goto(t, "done")
    /\ UNCHANGED shared

(* ------------------------------------------------------------------ *)
(* print_stats (482-490), the destructor                               *)
(* ------------------------------------------------------------------ *)

\* exit() runs the destructor once, whatever the other threads are doing;
\* logf.sink_at_exit records the sink the destructor found
print_stats ==
    /\ ~exited
    /\ exited' = TRUE
    /\ IF g.log_file # "NULL" /\ g.enabled
       THEN /\ logf' = [logf EXCEPT !.stats = @ + 1,
                                     !.sink_at_exit = g.log_file]
            /\ g' = [g EXCEPT !.log_file = "closed"]
       ELSE /\ logf' = [logf EXCEPT !.sink_at_exit = g.log_file]
            /\ g' = g
    /\ UNCHANGED <<env, real, g_initialized, g_mutex, g_targeted_fds,
                   g_stat, parses, pc, call>>

(* ------------------------------------------------------------------ *)
(* First use from several threads: every thread calls close()          *)
(* ------------------------------------------------------------------ *)

InitFds == {3}

InitEnvironments ==
    { e \in Environments :
        \E en \in EnabledTexts, log \in LogTexts :
            e = MkEnv(en, BaseRates, BaseErrnos, "80", "5", log) }

FirstUseInit == InitWith(InitEnvironments)

FirstUseNext ==
    \/ \E t \in Threads :
         \/ close_call(t, InitFds)
         \/ init_config(t)
         \/ close_unmark(t)
         \/ close_real(t)
         \/ Return(t)
    \/ print_stats

InitSpec == FirstUseInit /\ [][FirstUseNext]_vars

(* ------------------------------------------------------------------ *)
(* A single-threaded client: every wrapper, every input                *)
(* ------------------------------------------------------------------ *)

\* the steps of each wrapper past init_config
connect_steps(t) ==
    \/ connect_gate(t) \/ connect_latency(t) \/ connect_decide(t)
    \/ connect_log(t) \/ connect_load(t) \/ connect_count(t) \/ connect_real(t)

send_steps(t) ==
    \/ send_gate(t) \/ send_latency(t) \/ send_decide(t)
    \/ send_log(t) \/ send_load(t) \/ send_count(t) \/ send_real(t)

recv_steps(t) ==
    \/ recv_gate(t) \/ recv_latency(t) \/ recv_decide(t)
    \/ recv_log(t) \/ recv_load(t) \/ recv_count(t) \/ recv_real(t)
    \/ recv_short_log(t) \/ recv_short_load(t) \/ recv_short_count(t)

write_steps(t) ==
    \/ write_gate(t) \/ write_log(t) \/ write_load(t) \/ write_count(t)
    \/ write_real(t)

read_steps(t) ==
    \/ read_gate(t) \/ read_latency(t) \/ read_decide(t)
    \/ read_log(t) \/ read_load(t) \/ read_count(t) \/ read_real(t)
    \/ read_short_log(t) \/ read_short_load(t) \/ read_short_count(t)

open_steps(t) == open_gate(t) \/ open_log(t) \/ open_real(t)

close_steps(t) == close_unmark(t) \/ close_real(t)

Wrapper(t) ==
    \/ init_config(t)
    \/ connect_steps(t) \/ send_steps(t) \/ recv_steps(t) \/ write_steps(t)
    \/ read_steps(t) \/ open_steps(t) \/ close_steps(t)
    \/ Return(t)

Init == InitWith(Environments)

\* the client is the one thread of the process: it calls exit() between
\* two calls, and the destructors that run after print_stats can make
\* further calls
Next ==
    \/ connect_call(MainThread, Fds, Addrs)
    \/ send_call(MainThread, Fds)
    \/ recv_call(MainThread, Fds)
    \/ write_call(MainThread, Fds)
    \/ read_call(MainThread, Fds)
    \/ open_call(MainThread)
    \/ close_call(MainThread, Fds)
    \/ Wrapper(MainThread)
    \/ pc[MainThread] = "idle" /\ print_stats

Spec == Init /\ [][Next]_vars

(* ------------------------------------------------------------------ *)
(* Several threads inside the wrappers at once, on one socket          *)
(* ------------------------------------------------------------------ *)

ConcFds == {3}
ConcAddrs == { [family |-> AF_INET, port |-> ntohs(80)] }

ConcEnvironments ==
    { e \in Environments :
        \E r \in {BaseRates, <<"1.0", "1.0", "1.0", "1.0", "1.0">>} :
            e = MkEnv("1", r, BaseErrnos, "80", "5", WritablePath) }

ConcInit == InitWith(ConcEnvironments)

\* one thread reads the socket while every thread connects and closes it
ConcNext ==
    \/ read_call(MainThread, ConcFds)
    \/ \E t \in Threads :
         \/ connect_call(t, ConcFds, ConcAddrs)
         \/ close_call(t, ConcFds)
         \/ init_config(t)
         \/ connect_steps(t) \/ read_steps(t) \/ close_steps(t)
         \/ Return(t)
    \/ print_stats

ConcSpec == ConcInit /\ [][ConcNext]_vars

(* ------------------------------------------------------------------ *)
(* First use raced by the other threads, under a fair scheduler        *)
(* ------------------------------------------------------------------ *)

LiveEnvironments ==
    { e \in Environments : e = MkEnv("1", BaseRates, BaseErrnos, "80", "5", WritablePath) }

LiveInit == InitWith(LiveEnvironments)

\* the main thread makes any call on the socket; every other thread
\* closes it, racing the main thread's first call through init_config
LiveNext ==
    \/ connect_call(MainThread, ConcFds, ConcAddrs)
    \/ send_call(MainThread, ConcFds)
    \/ recv_call(MainThread, ConcFds)
    \/ write_call(MainThread, ConcFds)
    \/ read_call(MainThread, ConcFds)
    \/ open_call(MainThread)
    \/ \E t \in Threads :
         \/ close_call(t, ConcFds)
         \/ Wrapper(t)
    \/ print_stats

\* every thread that can take a step of its wrapper eventually takes one:
\* the scheduler runs every runnable thread, nanosleep() and the real
\* functions return, and a thread blocked in pthread_mutex_lock() gets the
\* mutex once it stays free
LiveSpec ==
    LiveInit /\ [][LiveNext]_vars /\ \A t \in Threads : WF_vars(Wrapper(t))

(* ================================================================== *)
(* Claims                                                              *)
(* ================================================================== *)

\* a thread that has returned from init_config and is inside its wrapper
PastInit(t) == pc[t] \in {"body", "latency", "decide", "log", "load", "count",
                          "real", "short_log", "short_load", "short_count",
                          "done"}

\* C4: under every interleaving of the threads' first calls the body of
\* init_config (lines 126-186) runs exactly once -- never twice, and it
\* has run once any thread is back from init_config -- and the [INIT]
\* block is written at most once.
C4_InitOnce ==
    /\ parses <= 1
    /\ logf.init <= 1
    /\ logf.init_lines <= InitLines(g.target_port)
    /\ \A t \in Threads : PastInit(t) => parses = 1

\* C4 witness: two threads that both entered before initialization are
\* both back from init_config, one parse and one [INIT] block later.
C4_Witness ==
    /\ \E t, u \in Threads :
         /\ t # u
         /\ pc[t] = "body" /\ call[t].hoisted
         /\ pc[u] = "body" /\ call[u].hoisted
    /\ parses = 1
    /\ logf.init = 1
    /\ logf.init_lines = InitLines(g.target_port)

\* C5: whenever a thread is back from init_config (it has observed
\* g_initialized set) the statics it reads hold their final values: the
\* configuration parsed from the environment and seven non-NULL real
\* function pointers.
C5_PopulatedWhenObserved ==
    \A t \in Threads :
        (pc[t] = "body" /\ ~exited) =>
            /\ cfg(t) = ParsedConfig(env, g_defaults)
            /\ \A o \in Ops : realp(t, o)

(* ------------------------------------------------------------------ *)
(* What the environment configures, read off its texts                 *)
(* ------------------------------------------------------------------ *)

EnvEnabled == env.FAULT_INJECT_ENABLED = "1" \/ env.FAULT_INJECT_ENABLED = "true"
EnvPort == IF env.FAULT_TARGET_PORT = "80" THEN 80 ELSE 0
InTable(fd) == fd >= 0 /\ fd < MAX_TRACKED_FDS
Registered(fd) == fd \in g_targeted_fds
IsInet(a) == a.family = AF_INET \/ a.family = AF_INET6
HostPort(a) == ntohs(a.port)
AddrMatchesFilter(a) == EnvPort = 0 \/ (IsInet(a) /\ HostPort(a) = EnvPort)

\* the arguments the caller passed to the wrapper
CallerArgs(t) ==
    CASE call[t].op = "connect" -> <<call[t].fd, call[t].addr>>
      [] call[t].op \in {"send", "recv", "write", "read"} -> <<call[t].fd, call[t].len>>
      [] call[t].op = "open" -> <<call[t].flags, call[t].mode>>
      [] call[t].op = "close" -> <<call[t].fd>>
      [] OTHER -> <<>>

\* the call forwarded to the real function once and returned its result
Forwarded(t) ==
    /\ call[t].reals = 1
    /\ call[t].rargs = CallerArgs(t)
    /\ call[t].ret = call[t].rret
    /\ call[t].errno_set = 0
    /\ call[t].injected = "none"

\* C1: with FAULT_INJECT_ENABLED not "1"/"true", at every point of every
\* sequence of calls: a finished call has invoked the real function
\* exactly once on the caller's arguments and returns its result, no call
\* sleeps or writes a log line, no [INIT] or [STATS] line is written, the
\* four counters are 0 and no descriptor is registered (so the descriptor
\* of a close is unregistered when it returns).
C1_DisabledPassthrough ==
    ~EnvEnabled =>
        /\ g_stat = g_stat_defaults
        /\ logf.init = 0 /\ logf.stats = 0
        /\ g_targeted_fds = {}
        /\ \A t \in Threads :
             /\ call[t].slept = 0
             /\ call[t].logged = 0
             /\ call[t].reals <= 1
             /\ pc[t] = "done" => Forwarded(t)
             /\ (pc[t] = "done" /\ call[t].op = "close") => ~Registered(call[t].fd)

\* C1 witness: injection disabled by a text other than "1"/"true" while
\* rates, latency, port and log file are all configured; a connect to the
\* target port has been forwarded and nothing was registered or counted.
C1_Witness ==
    /\ env.FAULT_INJECT_ENABLED = "yes"
    /\ env.FAULT_LATENCY_MS = "5" /\ env.FAULT_LOG_FILE = WritablePath
    /\ env.FAULT_CONNECT_FAIL_RATE = "0.5"
    /\ \E t \in Threads :
         /\ pc[t] = "done" /\ call[t].op = "connect" /\ call[t].fd = 3
         /\ AddrMatchesFilter(call[t].addr) /\ EnvPort = 80
         /\ call[t].reals = 1 /\ call[t].ret = 0
    /\ g_targeted_fds = {}

\* C2: with injection enabled, a connect on a descriptor in [0, 4096)
\* whose address matches the filter (or with no filter) has the descriptor
\* registered from its gate step on -- before latency, before the
\* decision (no draw made yet) and before the real connect (not yet
\* invoked) -- and still when it returns, however it ends; and a close of
\* such a descriptor has it unregistered before the real close is invoked
\* and when it returns.
C2_RegisteredByConnect ==
    \A t \in Threads :
        /\ ( /\ EnvEnabled
             /\ call[t].op = "connect"
             /\ InTable(call[t].fd)
             /\ AddrMatchesFilter(call[t].addr)
             /\ pc[t] \in {"latency", "decide", "log", "load", "count", "real",
                          "done"} )
           => /\ Registered(call[t].fd)
              /\ pc[t] = "latency" => (call[t].reals = 0 /\ call[t].draws = 0)
              /\ pc[t] = "decide" => call[t].reals = 0
        /\ ( /\ call[t].op = "close"
             /\ InTable(call[t].fd)
             /\ pc[t] \in {"real", "done"} )
           => ~Registered(call[t].fd)

\* C2 witness: a connect on the standard-stream descriptor 2 to the target
\* port was injected-failed and descriptor 2 is registered when it returns.
C2_Witness ==
    \E t \in Threads :
        /\ pc[t] = "done" /\ call[t].op = "connect" /\ call[t].fd = 2
        /\ EnvPort = 80 /\ HostPort(call[t].addr) = 80
        /\ call[t].injected = "fail" /\ call[t].reals = 0
        /\ Registered(2)

\* a send or recv whose descriptor is not registered while a port filter
\* is configured and injection is enabled
BypassCase(t) ==
    /\ EnvEnabled /\ EnvPort # 0
    /\ call[t].op \in {"send", "recv"}
    /\ ~Registered(call[t].fd)

\* the state part of C3: no draw, no log line, one forwarded real call
C3_Inv ==
    \A t \in Threads :
        BypassCase(t) =>
            /\ call[t].draws = 0 /\ call[t].logged = 0 /\ call[t].reals <= 1
            /\ pc[t] = "done" => Forwarded(t)

\* the step part of C3: no step of a bypassed call changes a counter
C3_Step ==
    \A t \in Threads :
        (BypassCase(t) /\ pc[t] # "idle") => g_stat' = g_stat

\* C3: with injection enabled and a port filter configured, a send or
\* recv on an unregistered descriptor, whatever the rates, invokes the
\* real function exactly once on the caller's arguments, returns its
\* result unchanged, makes no rand() draw and writes no log line; and no
\* step of such a call changes a counter.
C3_BypassUnregistered == []C3_Inv /\ [][C3_Step]_vars

\* C3 witness: every rate is 1.0, the filter is port 80, and a recv on the
\* unregistered descriptor 3 returned all the 10 bytes the real recv gave.
C3_Witness ==
    /\ EnvEnabled /\ EnvPort = 80
    /\ env.FAULT_RECV_FAIL_RATE = "1.0" /\ env.FAULT_RECV_SHORT_RATE = "1.0"
    /\ env.FAULT_SEND_FAIL_RATE = "1.0"
    /\ \E t \in Threads :
         /\ pc[t] = "done" /\ call[t].op = "recv" /\ call[t].fd = 3
         /\ ~Registered(3)
         /\ call[t].reals = 1 /\ call[t].ret = 10 /\ call[t].draws = 0

\* the scenario of C6: enabled, connect rate 1.0, ECONNREFUSED, port 80
C6_Scenario ==
    /\ EnvEnabled
    /\ env.FAULT_CONNECT_FAIL_RATE \in {"1.0", "1"}
    /\ env.FAULT_CONNECT_ERRNO = "ECONNREFUSED"
    /\ env.FAULT_TARGET_PORT = "80"

\* a finished connect to port 80 failed with ECONNREFUSED without the
\* real connect; one to port 443 was forwarded without a log line
C6_Outcome(t) ==
    /\ (IsInet(call[t].addr) /\ HostPort(call[t].addr) = 80)
         => (call[t].ret = -1 /\ call[t].errno_set = ECONNREFUSED /\ call[t].reals = 0)
    /\ (IsInet(call[t].addr) /\ HostPort(call[t].addr) = 443)
         => (Forwarded(t) /\ call[t].logged = 0)

\* a connect to port 443 in progress
C6_Other(t) ==
    /\ call[t].op = "connect" /\ pc[t] # "idle"
    /\ IsInet(call[t].addr) /\ HostPort(call[t].addr) = 443

\* no step of a connect to port 443 changes a counter
C6_StepStat == \A t \in Threads : (C6_Scenario /\ C6_Other(t)) => g_stat' = g_stat

\* no step of a connect to port 443 changes the table of targeted fds
C6_StepFds ==
    \A t \in Threads : (C6_Scenario /\ C6_Other(t)) => g_targeted_fds' = g_targeted_fds

C6_Inv ==
    C6_Scenario =>
        \A t \in Threads :
            (pc[t] = "done" /\ call[t].op = "connect") => C6_Outcome(t)

\* C6 as stated: in the scenario every connect to port 80 returns -1 with
\* ECONNREFUSED and never invokes the real connect, and a connect to port
\* 443 is forwarded once and returned unchanged with no log line and the
\* descriptor is not registered when it returns.
C6_AsStated ==
    C6_Scenario =>
        \A t \in Threads :
            (pc[t] = "done" /\ call[t].op = "connect") =>
                /\ C6_Outcome(t)
                /\ (IsInet(call[t].addr) /\ HostPort(call[t].addr) = 443)
                     => ~Registered(call[t].fd)

\* C6 amended: as stated, except that a connect to port 443 does not
\* register the descriptor -- it leaves the table of targeted fds, like the
\* counters, unchanged -- rather than the descriptor being unregistered.
C6_PortScenario == []C6_Inv /\ [][C6_StepStat /\ C6_StepFds]_vars

\* C6 witness: in the scenario descriptor 3, registered by an earlier
\* connect to port 80, has been connected to port 443 over IPv6: the real
\* connect ran once and the descriptor is still registered.
C6_Witness ==
    /\ C6_Scenario
    /\ \E t \in Threads :
         /\ pc[t] = "done" /\ call[t].op = "connect" /\ call[t].fd = 3
         /\ call[t].addr.family = AF_INET6 /\ HostPort(call[t].addr) = 443
         /\ call[t].reals = 1
    /\ Registered(3)
    /\ g_stat.connect_injected = 1

\* the short-read stage of a recv or read triggered
ShortTriggered(t) ==
    /\ call[t].op \in {"recv", "read"}
    /\ \/ pc[t] \in {"short_log", "short_load", "short_count"}
       \/ pc[t] = "done" /\ call[t].injected = "short"

\* C7: whenever the short-read stage of recv or read triggers, the real
\* function returned n > 1 after exactly one invocation on the caller's
\* descriptor and full length, and the reported length k satisfies
\* 1 <= k <= floor((n+1)/2), so k is never 0 and never above n (for
\* n = 10, k is in 1..5).
C7_ShortReadLength ==
    \A t \in Threads :
        ShortTriggered(t) =>
            /\ call[t].rret > 1
            /\ call[t].reals = 1
            /\ call[t].rargs = <<call[t].fd, call[t].len>>
            /\ call[t].ret >= 1
            /\ call[t].ret <= (call[t].rret + 1) \div 2
            /\ call[t].ret <= call[t].rret
            /\ call[t].rret = 10 => call[t].ret \in 1..5

\* C7 witness: short-read rate 1.0, the real read on a registered socket
\* returned 10 and the wrapper reports 5, the top of the range.
C7_Witness ==
    /\ env.FAULT_RECV_SHORT_RATE = "1.0"
    /\ \E t \in Threads :
         /\ pc[t] = "done" /\ call[t].op = "read" /\ call[t].injected = "short"
         /\ call[t].rret = 10 /\ call[t].ret = 5

\* the open rate and errno the environment configures
EnvOpenRateIsOne == env.FAULT_OPEN_FAIL_RATE \in {"1", "1.0"}
EnvOpenErrno ==
    CASE env.FAULT_OPEN_ERRNO = "ENOSPC" -> ENOSPC
      [] env.FAULT_OPEN_ERRNO = "28" -> ENOSPC
      [] OTHER -> ENOENT

\* C8: with injection enabled and open rate 1.0 every open, whatever its
\* flags, the port filter and the table of targeted fds, returns -1 with
\* errno the configured open code and never invokes the real open.
C8_OpenAlwaysFails ==
    (EnvEnabled /\ EnvOpenRateIsOne) =>
        \A t \in Threads :
            call[t].op = "open" =>
                /\ call[t].reals = 0
                /\ pc[t] = "done" =>
                     /\ call[t].ret = -1
                     /\ call[t].errno_set = EnvOpenErrno
                     /\ call[t].injected = "fail"

\* C8 witness: open rate 1.0 with ENOSPC and no port filter; an open with
\* O_CREAT failed with ENOSPC while a descriptor is registered.
C8_Witness ==
    /\ EnvEnabled /\ EnvOpenRateIsOne /\ EnvPort = 0
    /\ env.FAULT_OPEN_ERRNO = "ENOSPC"
    /\ g_targeted_fds # {}
    /\ \E t \in Threads :
         /\ pc[t] = "done" /\ call[t].op = "open" /\ call[t].flags = O_CREAT
         /\ call[t].ret = -1 /\ call[t].errno_set = ENOSPC /\ call[t].reals = 0

\* C9: in every call the real function is invoked at most once; a call
\* that ends without a failure injection (short reads included) invoked it
\* exactly once on the caller's arguments, and a call in which a failure
\* injection triggered did not invoke it.
C9_RealAtMostOnce ==
    \A t \in Threads :
        /\ call[t].reals <= 1
        /\ (pc[t] = "done" /\ call[t].injected # "fail")
             => (call[t].reals = 1 /\ call[t].rargs = CallerArgs(t))
        /\ (\/ pc[t] \in {"log", "load", "count"}
            \/ pc[t] = "done" /\ call[t].injected = "fail")
             => call[t].reals = 0

\* C9 witness: a recv that passed the failure stage and was then cut
\* short has invoked the real recv once.
C9_Witness ==
    \E t \in Threads :
        /\ pc[t] = "done" /\ call[t].op = "recv" /\ call[t].injected = "short"
        /\ call[t].draws = 3 /\ call[t].reals = 1

\* the counters a thread's step may change: those of the injection its
\* call is completing
Counting(t) == pc[t] \in {"count", "short_count"} /\ pc'[t] = "done"

\* C10: each of the four counters never decreases from one state to the
\* next, also while several threads run injected operations at once, and
\* changes only in a step that completes a call's injection.
C10_Monotonic ==
    [][ /\ g_stat'.connect_injected >= g_stat.connect_injected
        /\ g_stat'.send_injected >= g_stat.send_injected
        /\ g_stat'.recv_injected >= g_stat.recv_injected
        /\ g_stat'.short_reads >= g_stat.short_reads
        /\ g_stat' # g_stat => \E t \in Threads : Counting(t) ]_vars

\* the log sink was opened by init_config (166), a path being configured
\* and fopen() having succeeded, and was open when the teardown hook ran
SinkOpened ==
    /\ parses = 1 /\ fopen_append(env.FAULT_LOG_FILE) = "open"
    /\ logf.sink_at_exit = "open"

\* C11: once the teardown hook has run, if the log sink was opened at
\* initialization then exactly one [STATS] line has been written and the
\* sink is closed, whether or not injection is enabled; otherwise no
\* [STATS] line is written; and none is written before teardown.
C11_StatsAtTeardown ==
    /\ ~exited => logf.stats = 0
    /\ (exited /\ SinkOpened) => (logf.stats = 1 /\ g.log_file = "closed")
    /\ (exited /\ ~SinkOpened) => logf.stats = 0

\* the text of the fail rate that governs a call of operation o
FailRateText(o) ==
    CASE o = "connect" -> env.FAULT_CONNECT_FAIL_RATE
      [] o \in {"send", "write"} -> env.FAULT_SEND_FAIL_RATE
      [] o \in {"recv", "read"} -> env.FAULT_RECV_FAIL_RATE
      [] o = "open" -> env.FAULT_OPEN_FAIL_RATE
      [] OTHER -> NULL

\* rate texts that configure a rate <= 0 (or leave the default 0) and
\* rate texts that configure a rate >= 1
RateTextLow(s) == s \in {NULL, "0", "-0.5", "abc"}
RateTextHigh(s) == s \in {"1", "1.0", "1.5"}

\* the configured rates, as stored
StoredRates ==
    { g.connect_fail_rate, g.send_fail_rate, g.recv_fail_rate,
      g.recv_short_rate, g.open_fail_rate }

\* the call reached its operation's injection decision
GatedCall(t) ==
    /\ call[t].path = "gated"
    /\ call[t].op = "connect" => call[t].targeted

\* C12: should_inject is false for every draw when the rate is <= 0 and
\* true for every draw when it is >= 1 (rates are held in halves, so 1.0 is
\* 2), and makes no rand() call in either case; hence a call whose fail
\* rate is <= 0 or unset never ends injected-failed, a call that reaches the
\* decision with a fail rate >= 1 always does, without invoking the real
\* function, and in both cases no draw has been made when the failure
\* stage is over.
C12_RateExtremes ==
    /\ \A rate \in StoredRates \cup {-1, 0, 2, 3} : \A r \in RandValues :
         /\ rate <= 0 => (~should_inject(rate, r) /\ should_inject_draws(rate) = 0)
         /\ rate >= 2 => (should_inject(rate, r) /\ should_inject_draws(rate) = 0)
    /\ \A t \in Threads :
         /\ RateTextLow(FailRateText(call[t].op)) =>
              /\ call[t].injected # "fail"
              /\ pc[t] \notin {"log", "load", "count"}
              /\ pc[t] = "real" => call[t].draws = 0
         /\ (EnvEnabled /\ RateTextHigh(FailRateText(call[t].op)) /\ GatedCall(t)) =>
              /\ pc[t] \notin {"real", "short_log", "short_load", "short_count"}
              /\ call[t].reals = 0 /\ call[t].draws = 0
              /\ pc[t] = "done" => (call[t].injected = "fail" /\ call[t].ret = -1)

\* C12 witness: send rate 1.5 and recv rate 0; a send that reached the
\* decision was injected-failed without a draw.
C12_Witness ==
    /\ env.FAULT_SEND_FAIL_RATE = "1.5" /\ env.FAULT_RECV_FAIL_RATE = "0"
    /\ \E t \in Threads :
         /\ pc[t] = "done" /\ call[t].op = "send" /\ GatedCall(t)
         /\ call[t].injected = "fail" /\ call[t].draws = 0 /\ call[t].reals = 0

\* the error code an errno text configures; dflt is the static initializer
\* that stays when the variable is unset
ErrnoOfText(s, dflt) ==
    CASE s = NULL -> dflt
      [] s = "ECONNREFUSED" -> 111
      [] s = "EIO" -> 5
      [] s = "ETIMEDOUT" -> 110
      [] s = "ENOSPC" -> 28
      [] s = "ENETUNREACH" -> 101
      [] s = "EHOSTUNREACH" -> 113
      [] s = "28" -> 28
      [] OTHER -> 0

\* the code configured for operation o
ConfiguredErrno(o) ==
    CASE o = "connect" -> ErrnoOfText(env.FAULT_CONNECT_ERRNO, 110)
      [] o \in {"send", "write"} -> ErrnoOfText(env.FAULT_SEND_ERRNO, 32)
      [] o \in {"recv", "read"} -> ErrnoOfText(env.FAULT_RECV_ERRNO, 104)
      [] o = "open" -> ErrnoOfText(env.FAULT_OPEN_ERRNO, 2)
      [] OTHER -> 0

\* C13: a call that ends in an injected failure returns -1 with errno
\* assigned the code configured for its operation (connect: connect code,
\* send and write: send code, recv and read: recv code, open: open code)
\* and has not invoked the real function; a call that ends with no
\* injection returns exactly what its one real invocation returned, a real
\* failure (-1) included, and does not assign errno.
C13_InjectedErrno ==
    \A t \in Threads :
        pc[t] = "done" =>
            /\ call[t].injected = "fail" =>
                 /\ call[t].ret = -1
                 /\ call[t].errno_set = ConfiguredErrno(call[t].op)
                 /\ call[t].reals = 0
            /\ call[t].injected = "none" =>
                 /\ call[t].reals = 1
                 /\ call[t].ret = call[t].rret
                 /\ call[t].errno_set = 0

\* C13 witness: the send code is EIO and the recv code ETIMEDOUT; a write
\* on a registered socket was injected-failed with EIO.
C13_Witness ==
    /\ env.FAULT_SEND_ERRNO = "EIO" /\ env.FAULT_RECV_ERRNO = "ETIMEDOUT"
    /\ \E t \in Threads :
         /\ pc[t] = "done" /\ call[t].op = "write" /\ call[t].injected = "fail"
         /\ call[t].ret = -1 /\ call[t].errno_set = 5

\* the call is past its gate
PastGate(t) == pc[t] \in {"latency", "decide", "log", "load", "count", "real",
                          "short_log", "short_load", "short_count", "done"}

\* C14: with injection enabled and no port filter, every send and recv,
\* on a registered descriptor or not, takes the path through the injection
\* decision; a write or read takes it exactly when fd > 2 and the
\* descriptor is registered, and a write or read on descriptor 0, 1 or 2
\* or on an unregistered descriptor invokes the real function once on the
\* caller's arguments and returns its result unchanged, with no draw, log
\* line or sleep, whatever the rates.
C14_NoFilterGates ==
    (EnvEnabled /\ EnvPort = 0) =>
        \A t \in Threads :
            /\ (call[t].op \in {"send", "recv"} /\ PastGate(t))
                 => call[t].path = "gated"
            /\ (call[t].op \in {"write", "read"} /\ PastGate(t)) =>
                 /\ (call[t].fd > 2 /\ Registered(call[t].fd)) => call[t].path = "gated"
                 /\ (call[t].fd <= 2 \/ ~Registered(call[t].fd)) =>
                      /\ call[t].path = "ungated"
                      /\ call[t].draws = 0 /\ call[t].logged = 0 /\ call[t].slept = 0
                      /\ pc[t] \in {"real", "done"}
                      /\ pc[t] = "done" => Forwarded(t)

\* C14 witness: no filter, send rate 1.0; descriptor 2 was registered by a
\* connect and a write on it returned the 10 bytes the real write wrote.
C14_Witness ==
    /\ EnvEnabled /\ EnvPort = 0
    /\ env.FAULT_SEND_FAIL_RATE = "1.0"
    /\ Registered(2)
    /\ \E t \in Threads :
         /\ pc[t] = "done" /\ call[t].op = "write" /\ call[t].fd = 2
         /\ call[t].reals = 1 /\ call[t].ret = 10

\* the latency the environment configures is positive
EnvLatencyPositive == env.FAULT_LATENCY_MS = "5"

\* the call is at or past its injection decision
AtOrPastDecision(t) == pc[t] \in {"decide", "log", "load", "count", "real",
                                  "short_log", "short_load", "short_count",
                                  "done"}

\* what holds of latency in every operation but send and recv: connect
\* always sleeps once, read sleeps once exactly when its descriptor passes
\* the gate, the sleep is over before any draw, log line, injection or real
\* call, and write, open and close never sleep
C15_Common(t) ==
    /\ call[t].slept <= 1
    /\ pc[t] = "latency" =>
         /\ call[t].draws = 0 /\ call[t].logged = 0
         /\ call[t].reals = 0 /\ call[t].injected = "none"
    /\ (call[t].op = "connect" /\ AtOrPastDecision(t)) => call[t].slept = 1
    /\ (call[t].op = "read" /\ AtOrPastDecision(t)) =>
         call[t].slept = (IF call[t].fd > 2 /\ Registered(call[t].fd) THEN 1 ELSE 0)
    /\ call[t].op \in {"write", "open", "close"} => call[t].slept = 0

\* C15 as stated: with injection enabled and latency > 0, every connect,
\* send and recv sleeps once whatever the address and the registry, read
\* sleeps only when fd > 2 and registered, the sleep precedes the
\* decision, and write, open and close never sleep.
C15_AsStated ==
    (EnvEnabled /\ EnvLatencyPositive) =>
        \A t \in Threads :
            /\ C15_Common(t)
            /\ (call[t].op \in {"send", "recv"} /\ AtOrPastDecision(t))
                 => call[t].slept = 1

\* C15 amended: as stated, except that a send or recv sleeps once exactly
\* when it is not bypassed: with a port filter configured, a send or recv
\* on an unregistered descriptor returns the real result without sleeping.
C15_Latency ==
    (EnvEnabled /\ EnvLatencyPositive) =>
        \A t \in Threads :
            /\ C15_Common(t)
            /\ (call[t].op \in {"send", "recv"} /\ AtOrPastDecision(t))
                 => call[t].slept = (IF BypassCase(t) THEN 0 ELSE 1)

\* C15 witness: latency 5 ms and filter port 80; descriptor 3 is not
\* registered and a send on it was forwarded without a sleep.
C15_Witness ==
    /\ EnvEnabled /\ EnvLatencyPositive /\ EnvPort = 80
    /\ \E t \in Threads :
         /\ pc[t] = "done" /\ call[t].op = "send" /\ call[t].fd = 3
         /\ ~Registered(3)
         /\ call[t].slept = 0 /\ call[t].reals = 1

\* C16: a read whose short-read stage triggered passed the gate when it
\* entered (fd > 2 and registered), applied the latency and took the
\* fail-rate decision before the real read, also while other threads
\* connect or close the same descriptor.
C16_ReadGateAtEntry ==
    \A t \in Threads :
        (call[t].op = "read" /\ ShortTriggered(t)) =>
            /\ call[t].path = "gated"
            /\ EnvLatencyPositive => call[t].slept = 1

\* thread t is at the statement of a connect that registers its descriptor
\* and the step adds exactly that descriptor
C17_ConnectAdds(t) ==
    /\ call[t].op = "connect" /\ pc[t] = "body"
    /\ EnvEnabled /\ AddrMatchesFilter(call[t].addr)
    /\ InTable(call[t].fd)
    /\ g_targeted_fds' = g_targeted_fds \cup {call[t].fd}

\* thread t is at the unmark of a close and the step removes exactly that
\* descriptor
C17_CloseRemoves(t) ==
    /\ call[t].op = "close" /\ pc[t] = "body"
    /\ g_targeted_fds' = g_targeted_fds \ {call[t].fd}

\* C17: every step that changes the registry is the gate of a connect
\* whose address matches the filter, with injection enabled, adding that
\* one descriptor, or the unmark of a close removing that one descriptor:
\* no step of a send, recv, read, write, open or non-matching connect, and
\* no step of initialization or teardown, changes it.
C17_RegistryFrame ==
    [][ g_targeted_fds' # g_targeted_fds =>
          \E t \in Threads : C17_ConnectAdds(t) \/ C17_CloseRemoves(t) ]_vars

\* C17 witness: with filter port 80, a connect of the registered
\* descriptor 2 to a non-IP address has returned and descriptor 2 and
\* descriptor 3 are still registered.
C17_Witness ==
    /\ EnvEnabled /\ EnvPort = 80
    /\ Registered(2) /\ Registered(3)
    /\ \E t \in Threads :
         /\ pc[t] = "done" /\ call[t].op = "connect" /\ call[t].fd = 2
         /\ ~IsInet(call[t].addr) /\ call[t].reals = 1

\* descriptors outside [0, MAX_TRACKED_FDS)
OutsideFds == {-4096, -1, MAX_TRACKED_FDS, MAX_TRACKED_FDS + 1}

\* C18: in every reachable state the registry holds only descriptors of
\* [0, 4096), and for a descriptor outside that range mark and unmark
\* return the registry unchanged and is_targeted is false; so, with
\* injection enabled, a send or recv on such a descriptor under a port
\* filter takes the bypass and is forwarded with no draw, and a write or
\* read on it is forwarded without passing the gate, also after a connect
\* to the target port on that descriptor.
C18_OutOfRangeFds ==
    /\ \A fd \in g_targeted_fds : InTable(fd)
    /\ \A fd \in OutsideFds :
         /\ mark_targeted_fd(g_targeted_fds, fd) = g_targeted_fds
         /\ unmark_targeted_fd(g_targeted_fds, fd) = g_targeted_fds
         /\ ~is_targeted_fd(g_targeted_fds, fd)
    /\ \A t \in Threads :
         (EnvEnabled /\ ~InTable(call[t].fd) /\ PastGate(t)) =>
            /\ (call[t].op \in {"send", "recv"} /\ EnvPort # 0) =>
                 /\ call[t].path = "bypass" /\ call[t].draws = 0
                 /\ pc[t] = "done" => Forwarded(t)
            /\ call[t].op \in {"write", "read"} =>
                 /\ call[t].path = "ungated" /\ call[t].draws = 0
                 /\ pc[t] = "done" => Forwarded(t)
            /\ call[t].op = "connect" => ~Registered(call[t].fd)

\* C18 witness: with filter port 80, a connect of the out-of-range
\* descriptor 4096 to port 80 has returned the real connect's result and
\* the registry is still empty.
C18_Witness ==
    /\ EnvEnabled /\ EnvPort = 80
    /\ g_targeted_fds = {}
    /\ \E t \in Threads :
         /\ pc[t] = "done" /\ call[t].op = "connect"
         /\ call[t].fd = MAX_TRACKED_FDS /\ call[t].targeted
         /\ HostPort(call[t].addr) = 80 /\ call[t].reals = 1

\* a recv or read whose real function has returned
RealReturned(t) ==
    /\ call[t].op \in {"recv", "read"}
    /\ pc[t] \in {"short_log", "short_load", "short_count", "done"}
    /\ call[t].reals = 1

\* C19: a recv or read that injects a short read on a real result n > 1
\* reports k with 1 <= k < n; and when the real result is 1, 0 or -1 the
\* call returns it unchanged: the short-read stage makes no decision (at
\* most the one draw of the failure stage was made), writes no log line
\* and does not reach the increment of short_reads.
C19_ShortStrictlyLess ==
    \A t \in Threads :
        /\ ShortTriggered(t) =>
             /\ call[t].rret > 1
             /\ call[t].ret >= 1 /\ call[t].ret < call[t].rret
        /\ (RealReturned(t) /\ call[t].rret <= 1) =>
             /\ pc[t] = "done" /\ call[t].injected = "none"
             /\ call[t].ret = call[t].rret
             /\ call[t].draws <= 1 /\ call[t].logged = 0

\* C19 witness: the real recv returned 3 bytes and the short read reports
\* 2, the largest length below it.
C19_Witness ==
    \E t \in Threads :
        /\ pc[t] = "done" /\ call[t].op = "recv" /\ call[t].injected = "short"
        /\ call[t].rret = 3 /\ call[t].ret = 2

\* a thread inside the critical section of init_config
InCritical(t) == pc[t] \in {"init_check2", "init_body", "init_publish",
                            "init_log", "init_unlock"}

\* the mutex is held exactly by a thread inside the critical section, and
\* a thread that is back from init_config finds the flag set
C20_Safe ==
    /\ \A t \in Threads : (g_mutex = t) <=> InCritical(t)
    /\ \A t \in Threads : PastInit(t) => g_initialized = 1

\* C20: under every fair interleaving of the threads, the mutex is held
\* only inside the critical section of init_config (every exit path has
\* released it), a thread that returned from init_config sees the flag set,
\* every thread that enters init_config eventually returns from it, and
\* every intercepted call eventually returns to its caller.
C20_InitProgress ==
    /\ []C20_Safe
    /\ \A t \in Threads : (pc[t] = "init_check") ~> (pc[t] = "body")
    /\ \A t \in Threads : (pc[t] # "idle") ~> (pc[t] = "idle")

====
